---- MODULE Spec2Model ----
(***************************************************************************)
(* Batch image-filter pipeline: the std::thread strategy                   *)
(* (src/src_threads/main.cpp), the OpenMP strategy                         *)
(* (src/src_openmp/main.cpp) and the row partitioner both rest on.         *)
(***************************************************************************)
EXTENDS Integers, Naturals, Sequences, FiniteSets, TLC

(***************************************************************************)
(* Bounds of the model.                                                    *)
(***************************************************************************)
\* widest image width the decoder hands back in the pipeline model
Width == 3
\* image heights 1..MaxHeight in the pipeline model
MaxHeight == 3
\* directory entries of one run of a batch
MaxEntries == 2
\* heights and worker counts of the partitioner on its own
MaxPartHeight == 10
MaxPartThreads == 9
\* image sizes and worker counts of one filter call on its own
MaxCallWidth == 4
MaxCallHeight == 4
MaxCallThreads == 3

(***************************************************************************)
(* Program constants.                                                      *)
(***************************************************************************)
\* thread counts the benchmark harness passes on the command line
BenchThreads == {1, 2, 4, 8}
\* numThreads when no argument is given
DefaultThreads == 4
\* the bias main passes to applyBrightness
BrightnessValue == 50
\* channel counts stbi_load hands back for the supported formats
ChannelCounts == {1, 2, 3, 4}

(***************************************************************************)
(* C arithmetic.                                                           *)
(***************************************************************************)
Abs(a) == IF a < 0 THEN -a ELSE a

\* int / int of C++: the quotient truncated toward zero (b # 0)
CDiv(a, b) ==
    IF (a >= 0) = (b > 0) THEN Abs(a) \div Abs(b) ELSE -(Abs(a) \div Abs(b))

Min(a, b) == IF a < b THEN a ELSE b
Max(a, b) == IF a > b THEN a ELSE b

\* the upper clamp left out: the cast to unsigned char wraps
Clamp255NoUpperBound(v) == Max(0, v) % 256

\* max(0, min(255, v)) on int
Clamp255(v) == Max(0, Min(255, v))

RECURSIVE Pow2(_)
Pow2(n) == IF n = 0 THEN 1 ELSE 2 * Pow2(n - 1)

RECURSIVE BitLen(_)
BitLen(v) == IF v = 0 THEN 0 ELSE 1 + BitLen(v \div 2)

\* (int)sqrt(n) for 0 <= n < 2^24: the float square root is within half an
\* ulp of the real one, which never reaches the next integer
RECURSIVE IsqrtBetween(_, _, _)
IsqrtBetween(n, lo, hi) ==
    IF hi - lo <= 1 THEN lo
    ELSE LET mid == (lo + hi) \div 2
         IN  IF mid * mid <= n THEN IsqrtBetween(n, mid, hi)
             ELSE IsqrtBetween(n, lo, mid)
Isqrt(n) == IsqrtBetween(n, 0, 4096)

(***************************************************************************)
(* IEEE-754 binary32 arithmetic on the values the grayscale formula meets, *)
(* as a fixed-point pair <<ip, fp>>: the value is ip + fp / 2^27.          *)
(***************************************************************************)
U27 == Pow2(27)
\* 0.299f, 0.587f and 0.114f in units of 2^-27 (each is exact)
Coef299 == 40131100
Coef587 == 78785808
Coef114 == 15300821

\* round to the nearest binary32, ties to even
RoundF32(v) ==
    LET U == IF v.ip >= 1 THEN Pow2(BitLen(v.ip) + 3)
             ELSE IF BitLen(v.fp) > 24 THEN Pow2(BitLen(v.fp) - 24) ELSE 1
        q == v.fp \div U
        rem == v.fp % U
        up == 2 * rem > U \/ (2 * rem = U /\ q % 2 = 1)
        fp == (IF up THEN q + 1 ELSE q) * U
    IN  IF fp >= U27 THEN [ip |-> v.ip + 1, fp |-> fp - U27]
        ELSE [ip |-> v.ip, fp |-> fp]

\* coefficient * (float)r, r in 0..255; the product is split so that no
\* intermediate exceeds 31 bits
MulF32(cu, r) ==
    LET a == cu \div 65536
        b == cu % 65536
        q1 == (a * r) \div 2048
        r1 == (a * r) % 2048
        low == r1 * 65536 + b * r
    IN  RoundF32([ip |-> q1 + low \div U27, fp |-> low % U27])

AddF32(x, y) ==
    LET fp == x.fp + y.fp
    IN  RoundF32([ip |-> x.ip + y.ip + fp \div U27, fp |-> fp % U27])

\* the luminance rounded to nearest instead of truncated
GrayValueRounded(r, g, b) == (299 * r + 587 * g + 114 * b + 500) \div 1000

\* (unsigned char)(0.299f * r + 0.587f * g + 0.114f * b)
GrayValue(r, g, b) ==
    AddF32(AddF32(MulF32(Coef299, r), MulF32(Coef587, g)), MulF32(Coef114, b)).ip

(***************************************************************************)
(* The filters.  A buffer is a function from sample index to 0..255.  A    *)
(* piece of filter work is described by its effect: the samples it reads   *)
(* and the <<index, value>> pairs it writes.                               *)
(***************************************************************************)
NoEffect == [reads |-> {}, writes |-> {}]

\* the effects of the pieces of work in S, done one after the other on
\* disjoint outputs
JoinEffects(S) ==
    [reads |-> UNION {e.reads : e \in S}, writes |-> UNION {e.writes : e \in S}]

\* the output buffer after the writes of an effect
Store(out, e) ==
    [k \in DOMAIN out |->
        IF \E p \in e.writes : p[1] = k
        THEN (CHOOSE p \in e.writes : p[1] = k)[2]
        ELSE out[k]]

\* float kernel[3][3] of applyBlur, in sixteenths
BlurKernel == <<<<1, 2, 1>>, <<2, 4, 2>>, <<1, 2, 1>>>>
BlurDivisor == 16
\* a sharpen kernel whose weights sum to 0
SharpenKernelWeakCentre == <<<<0, -1, 0>>, <<-1, 4, -1>>, <<0, -1, 0>>>>
\* float kernel[3][3] of applySharpen
SharpenKernel == <<<<0, -1, 0>>, <<-1, 5, -1>>, <<0, -1, 0>>>>
SharpenDivisor == 1
\* int gx[3][3], gy[3][3] of applyEdge
SobelGx == <<<<-1, 0, 1>>, <<-2, 0, 2>>, <<-1, 0, 1>>>>
SobelGy == <<<<-1, -2, -1>>, <<0, 0, 0>>, <<1, 2, 1>>>>

Offsets == {-1, 0, 1}

\* int pixelIdx = ((y + ky) * width + (x + kx)) * channels + c
PixelIdx(x, y, c, kx, ky, width, channels) ==
    ((y + ky) * width + (x + kx)) * channels + c

NeighbourReads(x, y, c, width, channels) ==
    {PixelIdx(x, y, c, kx, ky, width, channels) : kx \in Offsets, ky \in Offsets}

RECURSIVE SumOver(_, _)
SumOver(f, S) ==
    IF S = {} THEN 0
    ELSE LET a == CHOOSE a \in S : TRUE IN f[a] + SumOver(f, S \ {a})

\* sum += input[pixelIdx] * kernel[ky + 1][kx + 1], over the 3x3 window; the
\* result is the numerator over the kernel's divisor.  Every partial sum is a
\* multiple of 1/16 below 2^12, so the float accumulation is exact.
KernelSum(in, kernel, x, y, c, width, channels) ==
    SumOver([o \in Offsets \X Offsets |->
                in[PixelIdx(x, y, c, o[1], o[2], width, channels)]
                    * kernel[o[2] + 2][o[1] + 2]],
            Offsets \X Offsets)

\* (unsigned char)max(0.0f, min(255.0f, sum)), sum = num / den
ClampFloatToByte(num, den) ==
    IF num <= 0 THEN 0
    ELSE IF num >= 255 * den THEN 255
    ELSE num \div den

\* (unsigned char)max(0, min(255, (int)sum)), sum = num / den
ClampIntToByte(num, den) == Clamp255(CDiv(num, den))

\* int magnitude = (int)sqrt(sumX * sumX + sumY * sumY), clamped to a byte
EdgeValue(in, x, y, c, width, channels) ==
    LET sumX == KernelSum(in, SobelGx, x, y, c, width, channels)
        sumY == KernelSum(in, SobelGy, x, y, c, width, channels)
    IN  Clamp255(Isqrt(sumX * sumX + sumY * sumY))

\* ---- std::thread strategy: one row y of a worker's range ----

\* applyGrayscale, the body of the x loop for pixel (x, y)
GrayscalePixel(in, x, y, width, channels) ==
    LET i == (y * width + x) * channels
        gray == GrayValue(in[i], in[i + 1], in[i + 2])
    IN  [reads |-> {i, i + 1, i + 2} \cup (IF channels = 4 THEN {i + 3} ELSE {}),
         writes |-> {<<i, gray>>}
            \cup (IF channels >= 3 THEN {<<i + 1, gray>>, <<i + 2, gray>>} ELSE {})
            \cup (IF channels = 4 THEN {<<i + 3, in[i + 3]>>} ELSE {})]

GrayscaleRow(in, y, width, channels) ==
    JoinEffects({GrayscalePixel(in, x, y, width, channels) : x \in 0..(width - 1)})

\* applyConvolution, one sample
ConvSample(in, kernel, den, x, y, c, width, channels) ==
    [reads |-> NeighbourReads(x, y, c, width, channels),
     writes |-> {<<(y * width + x) * channels + c,
                   ClampFloatToByte(
                       KernelSum(in, kernel, x, y, c, width, channels), den)>>}]

\* a border test that also skips the last interior row
ConvRowSkipsLastInterior(in, kernel, den, y, width, height, channels) ==
    IF y = 0 \/ y >= height - 2 THEN NoEffect
    ELSE JoinEffects({ConvSample(in, kernel, den, x, y, c, width, channels) :
                        x \in 1..(width - 2), c \in 0..(channels - 1)})

\* applyConvolution, the body of the y loop
ConvRow(in, kernel, den, y, width, height, channels) ==
    IF y = 0 \/ y >= height - 1 THEN NoEffect
    ELSE JoinEffects({ConvSample(in, kernel, den, x, y, c, width, channels) :
                        x \in 1..(width - 2), c \in 0..(channels - 1)})

\* applyEdge, one sample
EdgeSample(in, x, y, c, width, channels) ==
    [reads |-> NeighbourReads(x, y, c, width, channels),
     writes |-> {<<(y * width + x) * channels + c,
                   EdgeValue(in, x, y, c, width, channels)>>}]

\* applyEdge, the body of the y loop
EdgeRow(in, y, width, height, channels) ==
    IF y = 0 \/ y >= height - 1 THEN NoEffect
    ELSE JoinEffects({EdgeSample(in, x, y, c, width, channels) :
                        x \in 1..(width - 2), c \in 0..(channels - 1)})

\* applyBrightness, one sample
BrightnessSample(in, x, y, c, width, channels, value) ==
    LET idx == (y * width + x) * channels
    IN  [reads |-> {idx + c},
         writes |-> {<<idx + c,
                       IF channels = 4 /\ c = 3 THEN in[idx + c]
                       ELSE Clamp255(in[idx + c] + value)>>}]

\* applyBrightness, the body of the y loop
BrightnessRow(in, y, width, channels, value) ==
    JoinEffects({BrightnessSample(in, x, y, c, width, channels, value) :
                    x \in 0..(width - 1), c \in 0..(channels - 1)})

\* the row y of the filter a worker thread was spawned with
FilterRow(filter, in, y, width, height, channels) ==
    CASE filter = "grayscale" -> GrayscaleRow(in, y, width, channels)
      [] filter = "blur" ->
            ConvRow(in, BlurKernel, BlurDivisor, y, width, height, channels)
      [] filter = "sharpen" ->
            ConvRow(in, SharpenKernel, SharpenDivisor, y, width, height, channels)
      [] filter = "edge" -> EdgeRow(in, y, width, height, channels)
      [] filter = "brightness" ->
            BrightnessRow(in, y, width, channels, BrightnessValue)

\* ---- OpenMP strategy: one iteration of a parallel loop ----

\* applyGrayscale, iteration i of the pixel loop
OmpGrayscaleIter(in, i, channels) ==
    LET gray == GrayValue(in[i * channels], in[i * channels + 1],
                          in[i * channels + 2])
    IN  [reads |-> {i * channels, i * channels + 1, i * channels + 2}
            \cup (IF channels = 4 THEN {i * channels + 3} ELSE {}),
         writes |-> {<<i * channels, gray>>, <<i * channels + 1, gray>>,
                     <<i * channels + 2, gray>>}
            \cup (IF channels = 4
                  THEN {<<i * channels + 3, in[i * channels + 3]>>} ELSE {})]

\* applyConvolution, iteration (y, x) of the collapsed loops
OmpConvIter(in, kernel, den, x, y, width, channels) ==
    JoinEffects({[reads |-> NeighbourReads(x, y, c, width, channels),
                  writes |-> {<<(y * width + x) * channels + c,
                                ClampIntToByte(
                                    KernelSum(in, kernel, x, y, c, width, channels),
                                    den)>>}] :
                 c \in 0..(channels - 1)})

\* applyEdge, iteration (y, x) of the collapsed loops
OmpEdgeIter(in, x, y, width, channels) ==
    JoinEffects({[reads |-> NeighbourReads(x, y, c, width, channels),
                  writes |-> {<<(y * width + x) * channels + c,
                                EdgeValue(in, x, y, c, width, channels)>>}] :
                 c \in 0..(channels - 1)})

\* applyBrightness, iteration i of the sample loop
OmpBrightnessIter(in, i, value) ==
    [reads |-> {i}, writes |-> {<<i, Clamp255(in[i] + value)>>}]

\* the trip count of the parallel loop of a filter
OmpTripCount(filter, width, height, channels) ==
    CASE filter = "grayscale" -> width * height
      [] filter \in {"blur", "sharpen", "edge"} ->
            Max(0, height - 2) * Max(0, width - 2)
      [] filter = "brightness" -> width * height * channels

\* iteration k of the parallel loop of a filter; the collapsed loops run
\* over y = 1..height-2 (outer) and x = 1..width-2 (inner)
OmpIter(filter, in, k, width, height, channels) ==
    LET y == 1 + (k \div (width - 2))
        x == 1 + (k % (width - 2))
    IN  CASE filter = "grayscale" -> OmpGrayscaleIter(in, k, channels)
          [] filter = "blur" ->
                OmpConvIter(in, BlurKernel, BlurDivisor, x, y, width, channels)
          [] filter = "sharpen" ->
                OmpConvIter(in, SharpenKernel, SharpenDivisor, x, y, width, channels)
          [] filter = "edge" -> OmpEdgeIter(in, x, y, width, channels)
          [] filter = "brightness" -> OmpBrightnessIter(in, k, BrightnessValue)

\* schedule(static) with no chunk size: thread t of a team of T gets one
\* contiguous chunk [lo, hi) of the n iterations, sizes differing by at most 1
OmpChunk(t, T, n) ==
    LET q == n \div T
        r == n % T
    IN  IF t < r THEN [lo |-> t * (q + 1), hi |-> (t + 1) * (q + 1)]
        ELSE [lo |-> t * q + r, hi |-> (t + 1) * q + r]

(***************************************************************************)
(* The row partition of runParallel.                                       *)
(***************************************************************************)
\* int rowsPerThread = height / numThreads  (numThreads # 0)
RowsPerThread(numThreads, height) == CDiv(height, numThreads)

\* a worker that starts one row early
StartRowOverlap(i, rowsPerThread) == Max(0, i * rowsPerThread - 1)

StartRow(i, rowsPerThread) == i * rowsPerThread

\* the last thread treated like the others
EndRowMissingRemainder(i, numThreads, height, rowsPerThread) ==
    (i + 1) * rowsPerThread

\* the last thread covers any remaining rows
EndRow(i, numThreads, height, rowsPerThread) ==
    IF i = numThreads - 1 THEN height ELSE (i + 1) * rowsPerThread

(***************************************************************************)
(* The command line.  An argument is a sequence of characters.             *)
(***************************************************************************)
Digits == <<"0", "1", "2", "3", "4", "5", "6", "7", "8", "9">>

IsDigit(ch) == \E d \in 1..10 : Digits[d] = ch
DigitValue(ch) == (CHOOSE d \in 1..10 : Digits[d] = ch) - 1

\* v * 10 + d as the low 32 bits of the product and sum, read as an int:
\* worked on the two halves of 16 bits of v
Low32Mul10Add(v, d) ==
    LET hi == (v \div 65536) % 65536
        lo == v % 65536
        lo2 == lo * 10 + d
        hi2 == (hi * 10 + (lo2 \div 65536)) % 65536
    IN  (IF hi2 >= 32768 THEN hi2 - 65536 ELSE hi2) * 65536 + (lo2 % 65536)

\* the digit loop: the low 32 bits of the number the leading digits spell
\* (the accumulator is bound to its value before the next digit is taken)
RECURSIVE AtoiDigits(_, _)
AtoiDigits(str, acc) ==
    IF str = <<>> \/ ~IsDigit(Head(str)) THEN acc
    ELSE AtoiDigits(Tail(str),
                    CHOOSE r \in {Low32Mul10Add(v, DigitValue(Head(str))) :
                                    v \in {acc}} : TRUE)

\* the white space atoi skips (isspace): the space, \t, \n, the vertical
\* tab (the character 0x0B, written as it is), \f and \r
RECURSIVE SkipSpaces(_)
SkipSpaces(str) ==
    IF str # <<>> /\ Head(str) \in {" ", "\t", "\n", "", "\f", "\r"}
    THEN SkipSpaces(Tail(str)) ELSE str

\* the values of the leading digits of a text
RECURSIVE LeadingDigits(_)
LeadingDigits(str) ==
    IF str = <<>> \/ ~IsDigit(Head(str)) THEN <<>>
    ELSE <<DigitValue(Head(str))>> \o LeadingDigits(Tail(str))

RECURSIVE DropZeros(_)
DropZeros(ds) == IF ds # <<>> /\ Head(ds) = 0 THEN DropZeros(Tail(ds)) ELSE ds

\* of two digit sequences of one length, the first spells the larger number
RECURSIVE Greater(_, _)
Greater(a, b) ==
    /\ a # <<>>
    /\ \/ Head(a) > Head(b)
       \/ Head(a) = Head(b) /\ Greater(Tail(a), Tail(b))

\* strtol cannot represent the number in a long and hands back LONG_MAX,
\* 2^63 - 1, or LONG_MIN
Saturates(ds, negative) ==
    LET d == DropZeros(ds)
        longMax == <<9, 2, 2, 3, 3, 7, 2, 0, 3, 6, 8, 5, 4, 7, 7, 5, 8, 0, 7>>
        limit == IF negative THEN [longMax EXCEPT ![19] = 8] ELSE longMax
    IN  Len(d) > 19 \/ (Len(d) = 19 /\ Greater(d, limit))

\* atoi as glibc has it, (int) strtol(str, NULL, 10): white space, an optional
\* sign, then the leading digits; 0 when there are none.  The long is cut
\* to its low 32 bits.
Atoi(str) ==
    LET s == SkipSpaces(str)
        negative == s # <<>> /\ Head(s) = "-"
        body == IF s # <<>> /\ Head(s) \in {"-", "+"} THEN Tail(s) ELSE s
        v == AtoiDigits(body, 0)
    IN  IF Saturates(LeadingDigits(body), negative)
        THEN (IF negative THEN 0 ELSE -1)
        ELSE IF negative /\ v # -2147483647 - 1 THEN -v
        ELSE v

\* int numThreads = (argc > 1) ? atoi(argv[1]) : 4;  args is argv[1..]
ParseThreads(args) == IF Len(args) > 0 THEN Atoi(args[1]) ELSE DefaultThreads

\* the command lines of the model: none, the benchmark's four, one more
\* count, and three that parse to a count <= 0
CommandLines ==
    {<<>>, << <<"1">> >>, << <<"2">> >>, << <<"4">> >>, << <<"8">> >>,
     << <<"3">> >>, << <<"0">> >>, << <<"-", "1">> >>, << <<"a", "b">> >>}

(***************************************************************************)
(* The pipelines of the two main functions.                                *)
(***************************************************************************)
\* Blur run in place on buffer A
ThreadStagesInPlace ==
    <<[filter |-> "grayscale", inBuf |-> "img", outBuf |-> "A"],
      [filter |-> "blur", inBuf |-> "A", outBuf |-> "A"],
      [filter |-> "sharpen", inBuf |-> "A", outBuf |-> "B"],
      [filter |-> "edge", inBuf |-> "B", outBuf |-> "A"],
      [filter |-> "brightness", inBuf |-> "A", outBuf |-> "B"]>>

\* src_threads: Grayscale, Blur, Sharpen, Edge, Brightness
ThreadStages ==
    <<[filter |-> "grayscale", inBuf |-> "img", outBuf |-> "A"],
      [filter |-> "blur", inBuf |-> "A", outBuf |-> "B"],
      [filter |-> "sharpen", inBuf |-> "B", outBuf |-> "A"],
      [filter |-> "edge", inBuf |-> "A", outBuf |-> "B"],
      [filter |-> "brightness", inBuf |-> "B", outBuf |-> "A"]>>

\* Sharpen reading buffer B, which Blur wrote, instead of Edge's output
OmpStagesStaleInput ==
    <<[filter |-> "grayscale", inBuf |-> "img", outBuf |-> "A"],
      [filter |-> "blur", inBuf |-> "A", outBuf |-> "B"],
      [filter |-> "edge", inBuf |-> "B", outBuf |-> "A"],
      [filter |-> "sharpen", inBuf |-> "B", outBuf |-> "A"],
      [filter |-> "brightness", inBuf |-> "A", outBuf |-> "B"]>>

\* src_openmp: Grayscale, Blur, Edge, Sharpen, Brightness
OmpStages ==
    <<[filter |-> "grayscale", inBuf |-> "img", outBuf |-> "A"],
      [filter |-> "blur", inBuf |-> "A", outBuf |-> "B"],
      [filter |-> "edge", inBuf |-> "B", outBuf |-> "A"],
      [filter |-> "sharpen", inBuf |-> "A", outBuf |-> "B"],
      [filter |-> "brightness", inBuf |-> "B", outBuf |-> "A"]>>

\* samples of the two pipeline buffers in the model (the program allocates
\* 4000 * 4000 * 4 each)
BufferSize == Width * MaxHeight * 4

\* samples of memory the model holds from the first byte of each buffer: the
\* allocation and the heap that follows it
HeapSize == Width * (MaxHeight + 1) * 4

\* what malloc may hand back in a fresh buffer: every sample one of these
GarbageFills == {0, 171}

\* the samples of a decoded image of n samples
DecodedSamples(n) == [k \in 0..(n - 1) |-> (k * 53 + 10) % 256]

\* the pixel values of the solid test images of every size
SolidValues == {0, 100, 255}
\* the values of the lone pixel of the impulse test images
ImpulseValues == {1, 2, 3, 255}
\* omp_set_num_threads(n): the team size of the regions that follow; the
\* runtime of the build (libgomp) takes 1 for n <= 0
TeamSizes(n) == IF n > 0 THEN {n} ELSE {1}

VARIABLES
    strategy,     \* "threads" (src_threads) or "openmp" (src_openmp)
    argv,         \* argv[1..]
    numThreads,
    inputExists,  \* fs::exists(inputFolder)
    allocOk,      \* which of the two malloc calls succeed: [A, B]
    teamSize,     \* OpenMP: threads of a parallel region
    pc,           \* where main is
    exitCode,     \* -1 while running
    remaining,    \* directory entries not yet visited
    fileCount,
    width, height, channels,
    img,          \* the decoded image
    bufferA, bufferB,
    stage,        \* 1..5 while a pipeline runs, else 0
    workers,      \* std::thread strategy: the live worker threads
    team,         \* OpenMP strategy: the threads of the parallel region
    plan,         \* the ranges of the stage that runs
    stageLog,     \* history: the stages started for the image, in order
    planLog,      \* history: the numThreads values a partition was computed with
    rlog,         \* history: the samples read in the stage that runs
    wlog,         \* history: the samples written in the stage that runs
    wcnt,         \* history: writes per output sample in the stage that runs
    outBefore,    \* history: the output buffer as the stage found it
    decodes,      \* history: successful stbi_load calls
    loadFailures, \* history: failed stbi_load calls
    encoded,      \* history: what was handed to stbi_write_jpg
    entryLog      \* history: per directory entry visited, what was done for it

mvars == <<strategy, argv, numThreads, inputExists, allocOk, teamSize, pc,
           exitCode, remaining, fileCount, width, height, channels, img,
           bufferA, bufferB, stage, workers, team, plan, stageLog, planLog,
           rlog, wlog, wcnt, outBefore, decodes, loadFailures, encoded,
           entryLog>>

VARIABLES
    pHeight,      \* partitioner alone: height
    pThreads,     \* partitioner alone: numThreads
    pI,           \* partitioner alone: loop index i
    pPlan         \* partitioner alone: the ranges handed out so far

pvars == <<pHeight, pThreads, pI, pPlan>>

VARIABLES
    fStrategy,    \* one filter call alone: "threads" or "openmp"
    fFilter,      \* one filter call alone: the filter function
    fThreads,     \* one filter call alone: numThreads, or the team size
    fWidth, fHeight, fChannels,
    fIn,          \* one filter call alone: the input buffer
    fOut,         \* one filter call alone: the output buffer
    fOutBefore,   \* one filter call alone: the output buffer as it was found
    fWritten,     \* one filter call alone: the samples written so far
    fI            \* one filter call alone: workers that have run

fvars == <<fStrategy, fFilter, fThreads, fWidth, fHeight, fChannels, fIn, fOut,
           fOutBefore, fWritten, fI>>

VARIABLES
    oob           \* history: accesses past the end of a buffer's allocation

VARIABLES
    files,        \* benchmark: the binaries at the paths the harness names
    tempOutput,   \* benchmark: the lines of temp_output.txt
    tIdx,         \* benchmark: position of the loop in threadCounts
    thr, omp,     \* benchmark: the RunStats of the iteration
    summaryList,
    table,        \* benchmark: the rows printed under the table's header
    runs          \* history: what each test command ran and what was scraped

bvars == <<files, tempOutput, tIdx, thr, omp, summaryList, table, runs>>

VARIABLES
    outputOk,     \* the output folder is there or create_directories succeeds
    inputIsDir    \* fs::directory_iterator(inputFolder) can be constructed

evars == <<outputOk, inputIsDir>>

\* the variables main and its workers leave alone
ovars == <<pvars, fvars, bvars, evars>>

vars == <<mvars, pvars, fvars, oob, bvars, evars>>

(***************************************************************************)
(* main, both strategies.                                                  *)
(***************************************************************************)
EmptyBuffer == [k \in {} |-> 0]

Buf(name) ==
    CASE name = "img" -> img
      [] name = "A" -> bufferA
      [] name = "B" -> bufferB

Stages == IF strategy = "threads" THEN ThreadStages ELSE OmpStages

\* the log entries of an effect of worker id in stage st
ReadEntries(id, st, e) ==
    {[id |-> id, stage |-> stage, buf |-> st.inBuf, idx |-> k] : k \in e.reads}
WriteEntries(id, st, e) ==
    {[id |-> id, stage |-> stage, buf |-> st.outBuf, idx |-> p[1]] : p \in e.writes}

\* no filter call is being examined on its own
FilterIdle ==
    /\ fStrategy = "threads" /\ fFilter = "grayscale" /\ fThreads = 1
    /\ fWidth = 0 /\ fHeight = 0 /\ fChannels = 0
    /\ fIn = EmptyBuffer /\ fOut = EmptyBuffer /\ fOutBefore = EmptyBuffer
    /\ fWritten = {} /\ fI = 0

\* no benchmark is being run
BenchIdle ==
    /\ files = EmptyBuffer /\ tempOutput = <<>> /\ tIdx = 0
    /\ thr = <<>> /\ omp = <<>> /\ summaryList = <<>> /\ table = <<>>
    /\ runs = <<>>

\* main, row by row, on a directory of no entry or one; the runs over longer
\* directories are those of SpecBatch
Init ==
    /\ strategy \in {"threads", "openmp"}
    /\ argv \in CommandLines
    /\ numThreads = ParseThreads(argv)
    /\ outputOk \in BOOLEAN
    /\ inputExists \in BOOLEAN
    /\ inputIsDir \in {d \in BOOLEAN : d => inputExists}
    /\ allocOk \in [A : BOOLEAN, B : BOOLEAN]
    /\ teamSize = 0
    /\ pc = "start"
    /\ exitCode = -1
    /\ remaining \in {0, 1}
    /\ fileCount = 0
    /\ width = 0 /\ height = 0 /\ channels = 0
    /\ img = EmptyBuffer
    /\ bufferA = EmptyBuffer /\ bufferB = EmptyBuffer
    /\ stage = 0
    /\ workers = {} /\ team = {}
    /\ plan = <<>>
    /\ stageLog = <<>>
    /\ planLog = {}
    /\ rlog = {} /\ wlog = {}
    /\ wcnt = [k \in 0..(HeapSize - 1) |-> 0]
    /\ outBefore = EmptyBuffer
    /\ decodes = 0 /\ loadFailures = 0
    /\ encoded = <<>>
    /\ entryLog = <<>>
    /\ oob = {}
    /\ pHeight = 1 /\ pThreads = 1 /\ pI = 0 /\ pPlan = <<>>
    /\ FilterIdle
    /\ BenchIdle

\* main up to the input folder check: the thread count (src_openmp: and
\* omp_set_num_threads), the output folder, the header; return 1 when the
\* input folder is not there.  create_directories throws when it fails, and
\* nothing catches it.
Startup ==
    /\ pc = "start"
    /\ teamSize' \in (IF strategy = "openmp" THEN TeamSizes(numThreads)
                      ELSE {0})
    /\ IF ~outputOk THEN pc' = "crashed" /\ exitCode' = exitCode
       ELSE IF ~inputExists THEN pc' = "exit" /\ exitCode' = 1
       ELSE pc' = "alloc" /\ exitCode' = exitCode
    /\ UNCHANGED <<strategy, argv, numThreads, inputExists, allocOk, remaining,
                   fileCount, width, height, channels, img, bufferA, bufferB,
                   stage, workers, team, plan, stageLog, planLog, rlog, wlog,
                   wcnt, outBefore, decodes, loadFailures, encoded, entryLog,
                   oob, ovars>>

\* a buffer malloc hands back, with the heap after it
FreshBuffer(fill) == [k \in 0..(HeapSize - 1) |-> fill]

\* the two malloc calls, the check of their results (return 1 when either
\* is null; the other buffer is not freed), and the construction of the
\* directory iterator, which throws when the input folder is not a directory
Allocate ==
    /\ pc = "alloc"
    /\ \E fill \in GarbageFills :
          /\ bufferA' = IF allocOk.A THEN FreshBuffer(fill) ELSE EmptyBuffer
          /\ bufferB' = IF allocOk.B THEN FreshBuffer(fill) ELSE EmptyBuffer
    /\ IF ~allocOk.A \/ ~allocOk.B
       THEN pc' = "exit" /\ exitCode' = 1
       ELSE /\ pc' = (IF inputIsDir THEN "loop" ELSE "crashed")
            /\ exitCode' = exitCode
    /\ UNCHANGED <<strategy, argv, numThreads, inputExists, allocOk, teamSize,
                   remaining, fileCount, width, height, channels, img, stage,
                   workers, team, plan, stageLog, planLog, rlog, wlog, wcnt,
                   outBefore, decodes, loadFailures, encoded, entryLog, oob, ovars>>

\* the record of a directory entry as the loop meets it
Entry(kind) == [kind |-> kind, stages |-> 0, encodes |-> 0]

\* the log after a stage was started for the entry the loop is at
StageStarted == [entryLog EXCEPT ![Len(entryLog)].stages = @ + 1]
\* the log after the entry's final buffer was handed to stbi_write_jpg
Encoded == [entryLog EXCEPT ![Len(entryLog)].encodes = @ + 1]

\* a directory entry without .jpg, .jpeg or .png in its path
SkipEntry ==
    /\ pc = "loop" /\ remaining > 0
    /\ remaining' = remaining - 1
    /\ entryLog' = Append(entryLog, Entry("skipped"))
    /\ UNCHANGED <<strategy, argv, numThreads, inputExists, allocOk, teamSize,
                   pc, exitCode, fileCount, width, height, channels, img,
                   bufferA, bufferB, stage, workers, team, plan, stageLog,
                   planLog, rlog, wlog, wcnt, outBefore, decodes, loadFailures,
                   encoded, oob, ovars>>

\* a failed load that is counted as a processed image
DecodeFailCounted ==
    /\ pc = "loop" /\ remaining > 0
    /\ remaining' = remaining - 1
    /\ loadFailures' = loadFailures + 1
    /\ fileCount' = fileCount + 1
    /\ entryLog' = Append(entryLog, Entry("failed"))
    /\ UNCHANGED <<strategy, argv, numThreads, inputExists, allocOk, teamSize,
                   pc, exitCode, width, height, channels, img, bufferA,
                   bufferB, stage, workers, team, plan, stageLog, planLog,
                   rlog, wlog, wcnt, outBefore, decodes, encoded, oob, ovars>>

\* stbi_load returns null
DecodeFail ==
    /\ pc = "loop" /\ remaining > 0
    /\ remaining' = remaining - 1
    /\ loadFailures' = loadFailures + 1
    /\ entryLog' = Append(entryLog, Entry("failed"))
    /\ UNCHANGED <<strategy, argv, numThreads, inputExists, allocOk, teamSize,
                   pc, exitCode, fileCount, width, height, channels, img,
                   bufferA, bufferB, stage, workers, team, plan, stageLog,
                   planLog, rlog, wlog, wcnt, outBefore, decodes, encoded,
                   oob, ovars>>

\* stbi_load hands back an image of Width x h with ch channels
Decode(h, ch) ==
    /\ pc = "loop" /\ remaining > 0
    /\ remaining' = remaining - 1
    /\ width' = Width /\ height' = h /\ channels' = ch
    /\ img' = DecodedSamples(Width * h * ch)
    /\ decodes' = decodes + 1
    /\ entryLog' = Append(entryLog, Entry("decoded"))
    /\ fileCount' = IF strategy = "threads" THEN fileCount + 1 ELSE fileCount
    /\ stage' = 1
    /\ stageLog' = <<>> /\ plan' = <<>>
    /\ rlog' = {} /\ wlog' = {}
    /\ wcnt' = [k \in 0..(HeapSize - 1) |-> 0]
    /\ pc' = IF strategy = "threads" THEN "spawn" ELSE "fork"
    /\ UNCHANGED <<strategy, argv, numThreads, inputExists, allocOk, teamSize,
                   exitCode, bufferA, bufferB, workers, team, planLog,
                   outBefore, loadFailures, encoded, oob, ovars>>

\* ---- std::thread strategy ----

\* a worker thread has run its loop to the end (an early return counts)
Finished(w) == w.y >= w.endRow

\* runParallel up to the join loop: the partition and the spawn of the
\* worker threads.  With numThreads = 0 the division is undefined; where it
\* does not trap the loop below it runs no iteration whatever it yields.
RunParallel ==
    /\ pc = "spawn"
    /\ LET st == Stages[stage]
           rpt == IF numThreads = 0 THEN 0 ELSE RowsPerThread(numThreads, height)
           range(i) == [startRow |-> StartRow(i, rpt),
                        endRow |-> EndRow(i, numThreads, height, rpt)]
       IN  /\ plan' = [i \in 1..numThreads |-> range(i - 1)]
           /\ workers' = workers \cup
                {[id |-> i, stage |-> stage, filter |-> st.filter,
                  inBuf |-> st.inBuf, outBuf |-> st.outBuf,
                  startRow |-> range(i).startRow, endRow |-> range(i).endRow,
                  y |-> range(i).startRow] : i \in 0..(numThreads - 1)}
           /\ stageLog' = Append(stageLog, st)
           /\ outBefore' = Buf(st.outBuf)
           /\ entryLog' = StageStarted
    /\ planLog' = planLog \cup {numThreads}
    /\ rlog' = {} /\ wlog' = {}
    /\ wcnt' = [k \in 0..(HeapSize - 1) |-> 0]
    /\ pc' = "join"
    /\ UNCHANGED <<strategy, argv, numThreads, inputExists, allocOk, teamSize,
                   exitCode, remaining, fileCount, width, height, channels, img,
                   bufferA, bufferB, stage, team, decodes, loadFailures,
                   encoded, oob, ovars>>

\* height / numThreads with numThreads = 0, where the division traps
RunParallelTrap ==
    /\ pc = "spawn" /\ numThreads = 0
    /\ pc' = "crashed"
    /\ planLog' = planLog \cup {numThreads}
    /\ UNCHANGED <<strategy, argv, numThreads, inputExists, allocOk, teamSize,
                   exitCode, remaining, fileCount, width, height, channels, img,
                   bufferA, bufferB, stage, workers, team, plan, stageLog, rlog,
                   wlog, wcnt, outBefore, decodes, loadFailures, encoded,
                   entryLog, oob, ovars>>

\* the accesses of an effect that fall past the end of a malloc'ed buffer
Overruns(st, e) ==
    {[buf |-> st.inBuf, idx |-> k] : k \in {j \in e.reads :
                                        st.inBuf # "img" /\ j >= BufferSize}}
    \cup {[buf |-> st.outBuf, idx |-> p[1]] : p \in {q \in e.writes :
                                                q[1] >= BufferSize}}

\* the buffers and logs after worker id of stage entry st did the work e;
\* accesses past the end of a buffer land in the heap that follows it
Perform(id, st, e) ==
    /\ oob' = oob \cup Overruns(st, e)
    /\ bufferA' = IF st.outBuf = "A" THEN Store(bufferA, e) ELSE bufferA
    /\ bufferB' = IF st.outBuf = "B" THEN Store(bufferB, e) ELSE bufferB
    /\ img' = IF st.outBuf = "img" THEN Store(img, e) ELSE img
    /\ rlog' = rlog \cup ReadEntries(id, st, e)
    /\ wlog' = wlog \cup WriteEntries(id, st, e)
    /\ wcnt' = [k \in DOMAIN wcnt |->
                  IF \E p \in e.writes : p[1] = k THEN wcnt[k] + 1 ELSE wcnt[k]]

\* a worker thread runs one iteration of its row loop (applyGrayscale
\* returns at once when channels < 3)
WorkerStep(w) ==
    /\ pc = "join"
    /\ w \in workers /\ ~Finished(w)
    /\ IF w.filter = "grayscale" /\ channels < 3
       THEN /\ workers' = (workers \ {w}) \cup {[w EXCEPT !.y = w.endRow]}
            /\ UNCHANGED <<bufferA, bufferB, img, rlog, wlog, wcnt, oob>>
       ELSE /\ workers' = (workers \ {w}) \cup {[w EXCEPT !.y = w.y + 1]}
            /\ Perform(w.id, w,
                       FilterRow(w.filter, Buf(w.inBuf), w.y, width, height,
                                 channels))
    /\ UNCHANGED <<strategy, argv, numThreads, inputExists, allocOk, teamSize,
                   pc, exitCode, remaining, fileCount, width, height, channels,
                   stage, team, plan, stageLog, planLog, outBefore, decodes,
                   loadFailures, encoded,
                   entryLog, ovars>>

\* a join loop that waits for the first thread only
JoinReadyFirstOnly == \A w \in workers : w.id = 0 => Finished(w)

\* for (auto& t : threads) t.join() gets through: every thread has ended
JoinReady == \A w \in workers : Finished(w)

\* the join loop of runParallel and the return to main
Join ==
    /\ pc = "join" /\ JoinReady
    /\ workers' = {w \in workers : ~Finished(w)}
    /\ IF stage < Len(Stages)
       THEN stage' = stage + 1 /\ pc' = "spawn"
       ELSE stage' = stage /\ pc' = "save"
    /\ UNCHANGED <<strategy, argv, numThreads, inputExists, allocOk, teamSize,
                   exitCode, remaining, fileCount, width, height, channels, img,
                   bufferA, bufferB, team, plan, stageLog, planLog, rlog, wlog,
                   wcnt, outBefore, decodes, loadFailures, encoded,
                   entryLog, oob, ovars>>

\* ---- OpenMP strategy ----

TeamDone(t) == t.next >= t.hi

\* a filter function up to its parallel region: applyGrayscale returns before
\* it when channels < 3; otherwise the loop's iterations are dealt out
OmpFork ==
    /\ pc = "fork"
    /\ LET st == Stages[stage]
           n == IF st.filter = "grayscale" /\ channels < 3 THEN 0
                ELSE OmpTripCount(st.filter, width, height, channels)
       IN  /\ plan' = [t \in 1..teamSize |->
                         [startRow |-> OmpChunk(t - 1, teamSize, n).lo,
                          endRow |-> OmpChunk(t - 1, teamSize, n).hi]]
           /\ team' = team \cup
                {[id |-> t, stage |-> stage, filter |-> st.filter,
                  inBuf |-> st.inBuf, outBuf |-> st.outBuf,
                  lo |-> OmpChunk(t, teamSize, n).lo,
                  hi |-> OmpChunk(t, teamSize, n).hi,
                  next |-> OmpChunk(t, teamSize, n).lo] : t \in 0..(teamSize - 1)}
           /\ stageLog' = Append(stageLog, st)
           /\ outBefore' = Buf(st.outBuf)
           /\ entryLog' = StageStarted
    /\ rlog' = {} /\ wlog' = {}
    /\ wcnt' = [k \in 0..(HeapSize - 1) |-> 0]
    /\ pc' = "barrier"
    /\ UNCHANGED <<strategy, argv, numThreads, inputExists, allocOk, teamSize,
                   exitCode, remaining, fileCount, width, height, channels, img,
                   bufferA, bufferB, stage, workers, planLog, decodes,
                   loadFailures, encoded, oob, ovars>>

\* a thread of the team runs the iterations of its chunk
OmpThreadRun(t) ==
    /\ pc = "barrier"
    /\ t \in team /\ ~TeamDone(t)
    /\ team' = (team \ {t}) \cup {[t EXCEPT !.next = t.hi]}
    /\ Perform(t.id, t,
               JoinEffects({OmpIter(t.filter, Buf(t.inBuf), k, width, height,
                                    channels) : k \in t.lo..(t.hi - 1)}))
    /\ UNCHANGED <<strategy, argv, numThreads, inputExists, allocOk, teamSize,
                   pc, exitCode, remaining, fileCount, width, height, channels,
                   stage, workers, plan, stageLog, planLog, outBefore, decodes,
                   loadFailures, encoded,
                   entryLog, ovars>>

BarrierReady == \A t \in team : TeamDone(t)

\* the implicit barrier that ends the parallel region, and the return to main
OmpBarrier ==
    /\ pc = "barrier" /\ BarrierReady
    /\ team' = {t \in team : ~TeamDone(t)}
    /\ IF stage < Len(Stages)
       THEN stage' = stage + 1 /\ pc' = "fork"
       ELSE stage' = stage /\ pc' = "save"
    /\ UNCHANGED <<strategy, argv, numThreads, inputExists, allocOk, teamSize,
                   exitCode, remaining, fileCount, width, height, channels, img,
                   bufferA, bufferB, workers, plan, stageLog, planLog, rlog,
                   wlog, wcnt, outBefore, decodes, loadFailures, encoded,
                   entryLog, oob, ovars>>

\* ---- the end of a loop body, and of main ----

\* src_threads: stbi_write_jpg of bufferA, stbi_image_free.
\* src_openmp: the write is commented out; stbi_image_free, fileCount++.
Save ==
    /\ pc = "save"
    /\ IF strategy = "threads"
       THEN /\ encoded' = Append(encoded,
                [width |-> width, height |-> height, channels |-> channels,
                 samples |-> [k \in 0..(width * height * channels - 1) |->
                                 bufferA[k]]])
            /\ entryLog' = Encoded
            /\ fileCount' = fileCount
       ELSE /\ encoded' = encoded
            /\ entryLog' = entryLog
            /\ fileCount' = fileCount + 1
    /\ img' = EmptyBuffer
    /\ stage' = 0
    /\ pc' = "loop"
    /\ UNCHANGED <<strategy, argv, numThreads, inputExists, allocOk, teamSize,
                   exitCode, remaining, width, height, channels, bufferA,
                   bufferB, workers, team, plan, stageLog, planLog, rlog, wlog,
                   wcnt, outBefore, decodes, loadFailures, oob, ovars>>

\* the directory is exhausted: free(bufferA), free(bufferB), the final
\* statistics, return 0
Finish ==
    /\ pc = "loop" /\ remaining = 0
    /\ bufferA' = EmptyBuffer /\ bufferB' = EmptyBuffer
    /\ pc' = "exit"
    /\ exitCode' = 0
    /\ UNCHANGED <<strategy, argv, numThreads, inputExists, allocOk, teamSize,
                   remaining, fileCount, width, height, channels, img,
                   stage, workers, team, plan, stageLog, planLog, rlog,
                   wlog, wcnt, outBefore, decodes, loadFailures, encoded,
                   entryLog, oob, ovars>>

Next ==
    \/ Startup
    \/ Allocate
    \/ SkipEntry
    \/ DecodeFail
    \/ \E h \in 1..MaxHeight, ch \in ChannelCounts : Decode(h, ch)
    \/ RunParallel
    \/ RunParallelTrap
    \/ \E w \in workers : WorkerStep(w)
    \/ Join
    \/ OmpFork
    \/ \E t \in team : OmpThreadRun(t)
    \/ OmpBarrier
    \/ Save
    \/ Finish

Spec == Init /\ [][Next]_vars

(***************************************************************************)
(* The partitioner on its own, over a wider range of heights and counts.   *)
(***************************************************************************)
PartInit ==
    /\ pHeight \in 1..MaxPartHeight
    /\ pThreads \in 1..MaxPartThreads
    /\ pI = 0
    /\ pPlan = <<>>
    /\ strategy = "threads" /\ argv = <<>> /\ numThreads = DefaultThreads
    /\ inputExists = TRUE /\ allocOk = [A |-> TRUE, B |-> TRUE] /\ teamSize = 0
    /\ outputOk = TRUE /\ inputIsDir = TRUE
    /\ pc = "partition" /\ exitCode = -1 /\ remaining = 0 /\ fileCount = 0
    /\ width = 0 /\ height = 0 /\ channels = 0
    /\ img = EmptyBuffer /\ bufferA = EmptyBuffer /\ bufferB = EmptyBuffer
    /\ stage = 0 /\ workers = {} /\ team = {} /\ plan = <<>>
    /\ stageLog = <<>> /\ planLog = {} /\ rlog = {} /\ wlog = {}
    /\ wcnt = EmptyBuffer /\ outBefore = EmptyBuffer
    /\ decodes = 0 /\ loadFailures = 0 /\ encoded = <<>>
    /\ entryLog = <<>> /\ oob = {}
    /\ FilterIdle
    /\ BenchIdle

\* one iteration of the spawn loop of runParallel
PartSpawn ==
    /\ pI < pThreads
    /\ LET rpt == RowsPerThread(pThreads, pHeight)
       IN  pPlan' = Append(pPlan,
                [startRow |-> StartRow(pI, rpt),
                 endRow |-> EndRow(pI, pThreads, pHeight, rpt)])
    /\ pI' = pI + 1
    /\ UNCHANGED <<pHeight, pThreads, mvars, fvars, oob, bvars, evars>>

PartNext == PartSpawn

SpecPart == PartInit /\ [][PartNext]_vars

(***************************************************************************)
(* One filter call on its own: runParallel(numThreads, height, f, input,   *)
(* output, ...) of src_threads, or the filter function of src_openmp run   *)
(* by a team, on an input image drawn from a family of test images.  The   *)
(* workers run one after the other.                                        *)
(***************************************************************************)
Filters == {"grayscale", "blur", "sharpen", "edge", "brightness"}

\* an image whose pixels are all (v, v + 50, v + 100, v + 150) mod 256
SolidImage(v, w, h, ch) ==
    [k \in 0..(w * h * ch - 1) |-> (v + 50 * (k % ch)) % 256]

\* an image that is 0 but for pixel p, which is v in every channel
ImpulseImage(v, p, w, h, ch) ==
    [k \in 0..(w * h * ch - 1) |-> IF k \div ch = p THEN v ELSE 0]

Image(w, h, ch, samples) ==
    [width |-> w, height |-> h, channels |-> ch, samples |-> samples]

\* the input images of the filter calls
CallInputs ==
    {Image(3, 3, ch, SolidImage(v, 3, 3, ch)) : v \in 0..255, ch \in ChannelCounts}
    \cup {Image(w, h, ch, SolidImage(v, w, h, ch)) :
            w \in 1..MaxCallWidth, h \in 1..MaxCallHeight, ch \in ChannelCounts,
            v \in SolidValues}
    \cup {Image(w, h, ch, DecodedSamples(w * h * ch)) :
            w \in 1..MaxCallWidth, h \in 1..MaxCallHeight, ch \in ChannelCounts}
    \cup {Image(3, 3, ch, ImpulseImage(v, p, 3, 3, ch)) :
            v \in ImpulseValues, p \in 0..8, ch \in ChannelCounts}

CallInit ==
    /\ fStrategy \in {"threads", "openmp"}
    /\ fFilter \in Filters
    /\ fThreads \in 1..MaxCallThreads
    /\ \E im \in CallInputs :
          /\ fWidth = im.width /\ fHeight = im.height /\ fChannels = im.channels
          /\ fIn = im.samples
          /\ \E fill \in GarbageFills :
                /\ fOut = [k \in DOMAIN im.samples |-> fill]
                /\ fOutBefore = [k \in DOMAIN im.samples |-> fill]
    /\ fWritten = {}
    /\ fI = 0
    /\ pHeight = 1 /\ pThreads = 1 /\ pI = 0 /\ pPlan = <<>>
    /\ strategy = "threads" /\ argv = <<>> /\ numThreads = DefaultThreads
    /\ inputExists = TRUE /\ allocOk = [A |-> TRUE, B |-> TRUE] /\ teamSize = 0
    /\ outputOk = TRUE /\ inputIsDir = TRUE
    /\ pc = "call" /\ exitCode = -1 /\ remaining = 0 /\ fileCount = 0
    /\ width = 0 /\ height = 0 /\ channels = 0
    /\ img = EmptyBuffer /\ bufferA = EmptyBuffer /\ bufferB = EmptyBuffer
    /\ stage = 0 /\ workers = {} /\ team = {} /\ plan = <<>>
    /\ stageLog = <<>> /\ planLog = {} /\ rlog = {} /\ wlog = {}
    /\ wcnt = EmptyBuffer /\ outBefore = EmptyBuffer
    /\ decodes = 0 /\ loadFailures = 0 /\ encoded = <<>>
    /\ entryLog = <<>> /\ oob = {}
    /\ BenchIdle

\* what worker i of runParallel(n, h, f, in, out, ...) does: f on its rows
WorkerEffect(filter, in, i, n, w, h, ch) ==
    LET rpt == RowsPerThread(n, h)
        rows == StartRow(i, rpt)..(EndRow(i, n, h, rpt) - 1)
    IN  IF filter = "grayscale" /\ ch < 3 THEN NoEffect
        ELSE JoinEffects({FilterRow(filter, in, y, w, h, ch) : y \in rows})

\* what thread t of a team of T does in the parallel loop of a filter
TeamThreadEffect(filter, in, t, T, w, h, ch) ==
    LET n == IF filter = "grayscale" /\ ch < 3 THEN 0
             ELSE OmpTripCount(filter, w, h, ch)
        chunk == OmpChunk(t, T, n)
    IN  JoinEffects({OmpIter(filter, in, k, w, h, ch) :
                        k \in chunk.lo..(chunk.hi - 1)})

\* the call's state after the next worker did the work e
CallPerform(e) ==
    /\ fOut' = Store(fOut, e)
    /\ fWritten' = fWritten \cup {p[1] : p \in e.writes}
    /\ fI' = fI + 1
    /\ UNCHANGED <<fStrategy, fFilter, fThreads, fWidth, fHeight, fChannels,
                   fIn, fOutBefore, mvars, pvars, oob, bvars, evars>>

\* src_threads: the next worker thread of the call runs
CallWorker ==
    /\ fStrategy = "threads" /\ pc = "call" /\ fI < fThreads
    /\ CallPerform(WorkerEffect(fFilter, fIn, fI, fThreads, fWidth, fHeight,
                                fChannels))

\* src_openmp: the next thread of the team runs its chunk
CallTeamThread ==
    /\ fStrategy = "openmp" /\ pc = "call" /\ fI < fThreads
    /\ CallPerform(TeamThreadEffect(fFilter, fIn, fI, fThreads, fWidth,
                                    fHeight, fChannels))

CallNext == CallWorker \/ CallTeamThread

SpecCall == CallInit /\ [][CallNext]_vars

\* every worker of the call has run: the call returns
CallDone == pc = "call" /\ fI = fThreads

(***************************************************************************)
(* Batches of several directory entries, run by the same steps of main and *)
(* of its threads.  The decoder may hand back an image one row taller than *)
(* the tallest the buffers hold with four channels: with fewer channels it *)
(* fits, with four it does not.                                            *)
(***************************************************************************)
\* the command line of the batch runs: the count 2
BatchCommandLines == {<< <<"2">> >>}

\* the heights of the images of the batch runs: one row, and one row more
\* than the tallest four-channel image the buffers hold
BatchHeights == {1, MaxHeight + 1}

BatchInit ==
    /\ strategy \in {"threads", "openmp"}
    /\ argv \in BatchCommandLines
    /\ numThreads = ParseThreads(argv)
    /\ outputOk = TRUE
    /\ inputExists = TRUE
    /\ inputIsDir = TRUE
    /\ allocOk = [A |-> TRUE, B |-> TRUE]
    /\ teamSize = 0
    /\ pc = "start"
    /\ exitCode = -1
    /\ remaining \in 0..MaxEntries
    /\ fileCount = 0
    /\ width = 0 /\ height = 0 /\ channels = 0
    /\ img = EmptyBuffer
    /\ bufferA = EmptyBuffer /\ bufferB = EmptyBuffer
    /\ stage = 0
    /\ workers = {} /\ team = {}
    /\ plan = <<>>
    /\ stageLog = <<>>
    /\ planLog = {}
    /\ rlog = {} /\ wlog = {}
    /\ wcnt = [k \in 0..(HeapSize - 1) |-> 0]
    /\ outBefore = EmptyBuffer
    /\ decodes = 0 /\ loadFailures = 0
    /\ encoded = <<>>
    /\ entryLog = <<>>
    /\ oob = {}
    /\ pHeight = 1 /\ pThreads = 1 /\ pI = 0 /\ pPlan = <<>>
    /\ FilterIdle
    /\ BenchIdle

\* everything the workers of a stage do, on the input in, between its start
\* and its return
StageEffectFrom(st, in) ==
    IF strategy = "threads"
    THEN JoinEffects({WorkerEffect(st.filter, in, i, numThreads,
                                   width, height, channels) :
                        i \in 0..(numThreads - 1)})
    ELSE JoinEffects({TeamThreadEffect(st.filter, in, t, teamSize,
                                       width, height, channels) :
                        t \in 0..(teamSize - 1)})

\* an access of a worker thread past the end of a buffer hits an unmapped
\* page: the process is killed in the middle of the stage
WorkerTrap(w) ==
    /\ pc = "join"
    /\ w \in workers /\ ~Finished(w)
    /\ ~(w.filter = "grayscale" /\ channels < 3)
    /\ width * height * channels > BufferSize
    /\ LET e == FilterRow(w.filter, Buf(w.inBuf), w.y, width, height, channels)
       IN  /\ Overruns(w, e) # {}
           /\ oob' = oob \cup Overruns(w, e)
    /\ pc' = "crashed"
    /\ UNCHANGED <<strategy, argv, numThreads, inputExists, allocOk, teamSize,
                   exitCode, remaining, fileCount, width, height, channels, img,
                   bufferA, bufferB, stage, workers, team, plan, stageLog,
                   planLog, rlog, wlog, wcnt, outBefore, decodes, loadFailures,
                   encoded, entryLog, ovars>>

\* the same for a thread of an OpenMP team
OmpThreadTrap(t) ==
    /\ pc = "barrier"
    /\ t \in team /\ ~TeamDone(t)
    /\ width * height * channels > BufferSize
    /\ LET e == JoinEffects({OmpIter(t.filter, Buf(t.inBuf), k, width, height,
                                     channels) : k \in t.lo..(t.hi - 1)})
       IN  /\ Overruns(t, e) # {}
           /\ oob' = oob \cup Overruns(t, e)
    /\ pc' = "crashed"
    /\ UNCHANGED <<strategy, argv, numThreads, inputExists, allocOk, teamSize,
                   exitCode, remaining, fileCount, width, height, channels, img,
                   bufferA, bufferB, stage, workers, team, plan, stageLog,
                   planLog, rlog, wlog, wcnt, outBefore, decodes, loadFailures,
                   encoded, entryLog, ovars>>

BatchNext ==
    \/ Startup
    \/ Allocate
    \/ SkipEntry
    \/ DecodeFail
    \/ \E h \in BatchHeights, ch \in ChannelCounts : Decode(h, ch)
    \/ RunParallel
    \/ \E w \in workers : WorkerStep(w)
    \/ \E w \in workers : WorkerTrap(w)
    \/ Join
    \/ OmpFork
    \/ \E t \in team : OmpThreadRun(t)
    \/ \E t \in team : OmpThreadTrap(t)
    \/ OmpBarrier
    \/ Save
    \/ Finish

SpecBatch == BatchInit /\ [][BatchNext]_vars

(***************************************************************************)
(* Properties.                                                             *)
(***************************************************************************)
RangeRows(r) == r.startRow..(r.endRow - 1)

RECURSIVE SumLengths(_)
SumLengths(ranges) ==
    IF ranges = <<>> THEN 0
    ELSE (Head(ranges).endRow - Head(ranges).startRow) + SumLengths(Tail(ranges))

\* C1: for every height >= 1 and worker count >= 1, the ranges runParallel
\* hands out are ordered, pairwise disjoint, cover exactly [0, height), their
\* lengths sum to height, and the last one takes the remainder of the
\* division on top of its share.
C1_PartitionCoversRows ==
    pI = pThreads =>
        /\ Len(pPlan) = pThreads
        /\ \A i \in 1..Len(pPlan) : pPlan[i].startRow <= pPlan[i].endRow
        /\ \A i, j \in 1..Len(pPlan) :
              i < j => /\ pPlan[i].endRow <= pPlan[j].startRow
                       /\ RangeRows(pPlan[i]) \cap RangeRows(pPlan[j]) = {}
        /\ UNION {RangeRows(pPlan[i]) : i \in 1..Len(pPlan)} = 0..(pHeight - 1)
        /\ SumLengths(pPlan) = pHeight
        /\ pPlan[pThreads].endRow - pPlan[pThreads].startRow
              = (pHeight \div pThreads) + (pHeight % pThreads)

\* a finished plan with several workers and a remainder
C1_Witness ==
    /\ pI = pThreads /\ pThreads > 1 /\ pHeight > pThreads
    /\ pHeight % pThreads # 0
    /\ Len(pPlan) = pThreads

\* C9: with more workers requested than rows, exactly height workers are
\* spawned, each with one row, and none with an empty range.
C9_ClampsToHeight ==
    (pI = pThreads /\ pThreads > pHeight) =>
        /\ Len(pPlan) = pHeight
        /\ \A i \in 1..Len(pPlan) : pPlan[i].endRow - pPlan[i].startRow = 1

\* the stage that runs has had all its work done
StageComplete ==
    \/ pc = "join" /\ JoinReady
    \/ pc = "barrier" /\ BarrierReady

\* the samples of the image in a buffer
ImageSamples == 0..(width * height * channels - 1)

RowOf(idx) == idx \div (width * channels)

\* C2: no worker of a later stage runs while a worker of an earlier stage is
\* unfinished: the live workers all belong to the one stage main is waiting
\* on, and everything read or written since its start was by that stage.
C2_StageBarrier ==
    /\ \A w \in workers : w.stage = stage /\ pc = "join"
    /\ \A t \in team : t.stage = stage /\ pc = "barrier"
    /\ \A w1, w2 \in workers \cup team : w1.stage = w2.stage
    /\ workers # {} \/ team # {} => \A e \in rlog \cup wlog : e.stage = stage

\* in a stage after the first, one worker has written while another is
\* still unfinished
C2_Witness ==
    /\ stage = 2 /\ pc = "join"
    /\ \E w1, w2 \in workers :
          /\ w1.id # w2.id /\ ~Finished(w2)
          /\ \E e \in wlog : e.id = w1.id

\* C3: when a stage's apply call returns, every sample of rows [0, height) of
\* its output buffer has been written by that stage.
C3_StageWritesEveryPixel ==
    (StageComplete /\ numThreads >= 1) => \A k \in ImageSamples : wcnt[k] >= 1

FullRowStage(st) ==
    \/ st.filter = "brightness"
    \/ st.filter = "grayscale" /\ channels >= 3

\* C4: in a stage of the std::thread strategy (worker count >= 1), under any
\* interleaving, every write a worker makes lands in the output buffer in a
\* row of its own range, no sample is written by two workers, and after a
\* full-row stage every sample of rows [0, height) was written exactly once.
C4_WritesStayInOwnRange ==
    strategy = "threads" =>
        /\ \A e \in wlog :
              /\ e.buf = ThreadStages[e.stage].outBuf
              /\ RowOf(e.idx) \in RangeRows(plan[e.id + 1])
        /\ \A e1, e2 \in wlog :
              (e1.buf = e2.buf /\ e1.idx = e2.idx) => e1.id = e2.id
        /\ (pc = "join" /\ JoinReady /\ numThreads >= 1
                /\ FullRowStage(ThreadStages[stage])) =>
              \A k \in ImageSamples : wcnt[k] = 1

\* Brightness is done on 3 rows by 2 workers: the last worker wrote the
\* remainder row
C4_Witness ==
    /\ strategy = "threads" /\ pc = "join" /\ JoinReady
    /\ numThreads = 2 /\ height = 3
    /\ ThreadStages[stage].filter = "brightness"
    /\ \E e \in wlog : e.id = 1 /\ RowOf(e.idx) = 2

ConvStage(st) == st.filter \in {"blur", "sharpen", "edge"}

\* C5: in Blur, Sharpen and Edge of the std::thread strategy every sample a
\* worker reads is inside the image, in a row of its range widened by one row
\* each way, and no sample read in a stage is written in that stage.
C5_ReadsStayInHalo ==
    strategy = "threads" =>
        \A e \in rlog :
            ConvStage(ThreadStages[e.stage]) =>
                /\ e.idx \in ImageSamples
                /\ RowOf(e.idx) \in 0..(height - 1)
                /\ RowOf(e.idx) \in (plan[e.id + 1].startRow - 1)..plan[e.id + 1].endRow
                /\ \A f \in wlog : ~(f.buf = e.buf /\ f.idx = e.idx)

\* a worker of a convolution stage has read the row above its range and the
\* row below it, both rows of other workers
C5_Witness ==
    /\ strategy = "threads" /\ numThreads = 3 /\ height = 3
    /\ \E e1, e2 \in rlog :
          /\ ConvStage(ThreadStages[e1.stage])
          /\ e1.id = e2.id
          /\ RowOf(e1.idx) = plan[e1.id + 1].startRow - 1
          /\ RowOf(e2.idx) = plan[e2.id + 1].endRow
    /\ wlog # {}

\* C6: stage 1 reads the decoded image and writes buffer A; each later stage
\* reads the buffer the stage before it wrote and writes the other buffer of
\* the pair; no stage reads and writes the same buffer, and the decoded image
\* is never written.
C6_PingPongBuffers ==
    /\ \A k \in 1..Len(stageLog) :
          /\ stageLog[k].inBuf # stageLog[k].outBuf
          /\ stageLog[k].outBuf \in {"A", "B"}
          /\ k = 1 => stageLog[k].inBuf = "img" /\ stageLog[k].outBuf = "A"
          /\ k > 1 => /\ stageLog[k].inBuf = stageLog[k - 1].outBuf
                      /\ stageLog[k].outBuf # stageLog[k - 1].outBuf
    /\ \A e \in wlog : e.buf # "img" /\ e.buf = stageLog[Len(stageLog)].outBuf
    /\ \A e \in rlog : e.buf = stageLog[Len(stageLog)].inBuf
    /\ stage >= 1 => img = DecodedSamples(width * height * channels)

\* all five stages of an image have run and the last one wrote
C6_Witness ==
    /\ pc = "save" /\ Len(stageLog) = 5 /\ strategy = "openmp"
    /\ wlog # {} /\ rlog # {}

StageOrder(log) == [k \in 1..Len(log) |-> log[k].filter]

\* C7: for every image, in either strategy, the stages started are Grayscale,
\* Blur, Edge, Sharpen, Brightness, in that order, each once.
C7_FixedStageOrder ==
    (pc = "save" /\ numThreads >= 1) =>
        StageOrder(stageLog) =
            <<"grayscale", "blur", "edge", "sharpen", "brightness">>

\* the output of a stage run by a single worker over rows [y, endRow)
RECURSIVE OneWorkerRows(_, _, _, _, _)
OneWorkerRows(filter, in, out, y, endRow) ==
    IF y >= endRow THEN out
    ELSE OneWorkerRows(filter, in,
            Store(out, FilterRow(filter, in, y, width, height, channels)),
            y + 1, endRow)

\* the output of a parallel loop run by a team of one over iterations [k, n)
RECURSIVE OneThreadIters(_, _, _, _, _)
OneThreadIters(filter, in, out, k, n) ==
    IF k >= n THEN out
    ELSE OneThreadIters(filter, in,
            Store(out, OmpIter(filter, in, k, width, height, channels)),
            k + 1, n)

\* what the stage leaves in its output buffer when run with worker count 1
OneWorkerOutput(st) ==
    IF st.filter = "grayscale" /\ channels < 3 THEN outBefore
    ELSE IF strategy = "threads"
    THEN OneWorkerRows(st.filter, Buf(st.inBuf), outBefore, 0, height)
    ELSE OneThreadIters(st.filter, Buf(st.inBuf), outBefore, 0,
                        OmpTripCount(st.filter, width, height, channels))

\* C8: in each strategy and for each filter, run on the same input and the
\* same initial output contents, worker counts 1, 2, 4 and 8 leave the same
\* bytes in the output buffer under every interleaving: the bytes worker
\* count 1 leaves.
C8_SameOutputForEveryWorkerCount ==
    (StageComplete /\ numThreads \in BenchThreads) =>
        Buf(Stages[stage].outBuf) = OneWorkerOutput(Stages[stage])

\* Blur is done on 3 rows by 2 workers and changed the output buffer
C8_Witness ==
    /\ pc = "join" /\ JoinReady /\ numThreads = 2 /\ height = 3
    /\ Stages[stage].filter = "blur"
    /\ Buf(Stages[stage].outBuf) # outBefore

\* C10: a worker count <= 0 is rejected at startup: no image is decoded, no
\* stage is started and no partition is computed with it.
C10_RejectsNonPositiveCount ==
    numThreads <= 0 =>
        /\ decodes = 0
        /\ stageLog = <<>>
        /\ planLog = {}

\* C11: for a 4-channel image, every stage of both strategies leaves the
\* alpha sample of each pixel it writes equal to the alpha sample of the same
\* pixel of its input.
C11_AlphaPassedThrough ==
    (StageComplete /\ channels = 4) =>
        \A e \in wlog :
            e.idx % 4 = 3 =>
                Buf(Stages[stage].outBuf)[e.idx] = Buf(Stages[stage].inBuf)[e.idx]

\* the alpha samples of an image of ch channels
IsAlpha(k, ch) == ch = 4 /\ k % 4 = 3

\* C12: Brightness with delta 50 writes min(255, max(0, v + 50)) for every
\* non-alpha sample value v in 0..255, in both strategies; 210 yields 255 and
\* 10 yields 60.
C12_BrightnessClamps ==
    (CallDone /\ fFilter = "brightness") =>
        \A k \in DOMAIN fIn :
            ~IsAlpha(k, fChannels) =>
                /\ k \in fWritten
                /\ fOut[k] = Min(255, Max(0, fIn[k] + 50))
                /\ fIn[k] = 210 => fOut[k] = 255
                /\ fIn[k] = 10 => fOut[k] = 60

\* Brightness has run on an image holding 210 and one holding a sample
\* under 206: the first is clamped, the second is not
C12_Witness ==
    /\ CallDone /\ fFilter = "brightness" /\ fStrategy = "openmp"
    /\ fIn[0] = 210 /\ fOut[0] = 255
    /\ \E k \in DOMAIN fIn : fIn[k] < 206 /\ fOut[k] = fIn[k] + 50

\* the samples of the interior pixels: rows 1..h-2 by columns 1..w-2
InteriorSamples(w, h, ch) ==
    {(y * w + x) * ch + c : y \in 1..(h - 2), x \in 1..(w - 2), c \in 0..(ch - 1)}

\* every pixel of the image equals the first one
IsSolid(in, ch) == \A k \in DOMAIN in : in[k] = in[k % ch]

\* C13: on a solid-colour image of any size, with any worker count, Blur and
\* Sharpen each write to every interior pixel the value it had in the input.
C13_KernelsKeepConstantFields ==
    (CallDone /\ fFilter \in {"blur", "sharpen"} /\ IsSolid(fIn, fChannels)) =>
        \A k \in InteriorSamples(fWidth, fHeight, fChannels) :
            k \in fWritten /\ fOut[k] = fIn[k]

\* Sharpen has run with 3 workers on a 4x4 solid image of value 255 and
\* wrote the four interior pixels
C13_Witness ==
    /\ CallDone /\ fFilter = "sharpen" /\ fStrategy = "threads"
    /\ fThreads = 3 /\ fWidth = 4 /\ fHeight = 4 /\ fChannels = 3
    /\ IsSolid(fIn, fChannels) /\ fIn[0] = 255
    /\ fWritten = InteriorSamples(4, 4, 3) /\ fOut[15] = 255

\* the pixels of the input are all (100, 150, 200)
IsTestColour(in, ch) ==
    \A k \in DOMAIN in :
        /\ k % ch = 0 => in[k] = 100
        /\ k % ch = 1 => in[k] = 150
        /\ k % ch = 2 => in[k] = 200

\* C14: on a 4x4 image of 3 or 4 channels whose pixels are all (100,150,200),
\* Grayscale writes 140 to R, G and B of every pixel and leaves alpha as in
\* the input, for every worker count.
C14_GrayscaleOfTestColour ==
    (CallDone /\ fFilter = "grayscale" /\ fWidth = 4 /\ fHeight = 4
        /\ fChannels >= 3 /\ IsTestColour(fIn, fChannels)) =>
        \A k \in DOMAIN fIn :
            /\ k \in fWritten
            /\ fOut[k] = IF IsAlpha(k, fChannels) THEN fIn[k] ELSE 140

\* Grayscale has run with 3 workers on the 4x4 RGBA image of the test colour
C14_Witness ==
    /\ CallDone /\ fFilter = "grayscale" /\ fThreads = 3
    /\ fWidth = 4 /\ fHeight = 4 /\ fChannels = 4
    /\ IsTestColour(fIn, fChannels)
    /\ fOut[0] = 140 /\ fOut[62] = 140 /\ fOut[63] = fIn[63]

\* C15: for every interior pixel and non-alpha channel, Edge writes
\* clamp(round(sqrt(sumX^2 + sumY^2)), 0, 255), rounding to nearest, sumX and
\* sumY being the Sobel sums over the 3x3 input neighbourhood.
C15_EdgeRoundsToNearest ==
    (CallDone /\ fFilter = "edge") =>
        \A y \in 1..(fHeight - 2), x \in 1..(fWidth - 2), c \in 0..(fChannels - 1) :
            LET k == (y * fWidth + x) * fChannels + c
                sumX == KernelSum(fIn, SobelGx, x, y, c, fWidth, fChannels)
                sumY == KernelSum(fIn, SobelGy, x, y, c, fWidth, fChannels)
                n == sumX * sumX + sumY * sumY
                r == Isqrt(n)
                nearest == IF n - r * r > r THEN r + 1 ELSE r
            IN  ~IsAlpha(k, fChannels) => fOut[k] = Clamp255(nearest)

\* the samples a call of the other strategy writes on the same arguments
OtherStrategyWrites ==
    IF fStrategy = "threads"
    THEN UNION {{p[1] : p \in TeamThreadEffect(fFilter, fIn, t, fThreads,
                                fWidth, fHeight, fChannels).writes} :
                t \in 0..(fThreads - 1)}
    ELSE UNION {{p[1] : p \in WorkerEffect(fFilter, fIn, i, fThreads,
                                fWidth, fHeight, fChannels).writes} :
                i \in 0..(fThreads - 1)}

\* C18: for Blur, Sharpen and Edge, on any width, height and worker count,
\* the pixels one strategy writes are the pixels the other writes, exactly
\* rows 1..height-2 by columns 1..width-2, and every other pixel of the output
\* is left as it was.
C18_SameBorderPolicy ==
    (CallDone /\ fFilter \in {"blur", "sharpen", "edge"}) =>
        /\ fWritten = InteriorSamples(fWidth, fHeight, fChannels)
        /\ fWritten = OtherStrategyWrites
        /\ \A k \in DOMAIN fOut : k \notin fWritten => fOut[k] = fOutBefore[k]

\* Edge has run with 3 workers on a 4x4 image: the interior is written and
\* the border still holds what the buffer held
C18_Witness ==
    /\ CallDone /\ fFilter = "edge" /\ fThreads = 3
    /\ fWidth = 4 /\ fHeight = 4 /\ fChannels = 3
    /\ fWritten # {} /\ fOut[0] = fOutBefore[0]
    /\ \E k \in fWritten : fOut[k] # fOutBefore[k]

\* the process is over: main returned, or the process was killed by a trap
RunEnded == pc \in {"exit", "crashed"}

\* C19: if the input directory does not exist (nothing is at its path, or
\* something that is not a directory) the run ends with a non-zero code
\* without decoding an image, starting a stage or allocating the buffer
\* pair; every run where the directory exists, the output folder is there or
\* can be created, and the allocation succeeds exits with code 0.
C19_ExitCodes ==
    /\ ~inputIsDir =>
          /\ pc \in {"start", "alloc", "exit", "crashed"}
          /\ pc = "exit" => exitCode # 0
          /\ decodes = 0 /\ loadFailures = 0 /\ entryLog = <<>>
          /\ stageLog = <<>> /\ planLog = {}
          /\ bufferA = EmptyBuffer /\ bufferB = EmptyBuffer
    /\ (inputIsDir /\ outputOk /\ allocOk.A /\ allocOk.B /\ RunEnded) =>
          (pc = "exit" /\ exitCode = 0)

\* the entries of the log of the given kind
EntriesOf(kind) == {i \in 1..Len(entryLog) : entryLog[i].kind = kind}

\* C16: in both strategies, whichever images fail to decode, a failed decode
\* runs no stage and no encode for that image, the loop goes on to the next
\* directory entry (main returns only when none is left), and the count the
\* final statistics print is the number of images whose decode succeeded.
C16_FailedDecodeSkipsImage ==
    /\ \A i \in EntriesOf("failed") :
          entryLog[i].stages = 0 /\ entryLog[i].encodes = 0
    /\ loadFailures = Cardinality(EntriesOf("failed"))
    /\ decodes = Cardinality(EntriesOf("decoded"))
    /\ pc = "exit" =>
          /\ remaining = 0 /\ exitCode = 0
          /\ fileCount = decodes

\* a run is over in which the first image failed to decode and the second
\* was decoded and went through its five stages
C16_Witness ==
    /\ pc = "exit" /\ strategy = "openmp"
    /\ Len(entryLog) = 2
    /\ entryLog[1].kind = "failed" /\ entryLog[2].kind = "decoded"
    /\ entryLog[2].stages = 5
    /\ fileCount = 1

\* C17: in both strategies the final buffer of every decoded image is handed
\* to the encoder exactly once, after its fifth stage has returned and before
\* the first stage of the next image starts.
C17_EncodedOncePerImage ==
    /\ \A i \in EntriesOf("decoded") :
          /\ entryLog[i].encodes <= 1
          /\ entryLog[i].encodes = 1 => entryLog[i].stages = 5
          /\ (i < Len(entryLog) \/ pc \in {"loop", "exit"}) =>
                entryLog[i].encodes = 1
    /\ Len(encoded) <= decodes

\* C20: whatever width, height and channel count the decoder hands back, no
\* stage reads or writes buffer A or buffer B at or past its allocated size.
C20_AccessesWithinCapacity == oob = {}

(***************************************************************************)
(* Termination.  The process keeps running while it has a step to take:    *)
(* main is one thread the scheduler never starves, and so is every worker  *)
(* thread that runParallel spawned and every thread of an OpenMP team.     *)
(***************************************************************************)
\* the steps of the main thread
BatchMainStep ==
    \/ Startup
    \/ Allocate
    \/ SkipEntry
    \/ DecodeFail
    \/ \E h \in BatchHeights, ch \in ChannelCounts : Decode(h, ch)
    \/ RunParallel
    \/ Join
    \/ OmpFork
    \/ OmpBarrier
    \/ Save
    \/ Finish

\* the steps of worker thread i of a runParallel call
WorkerAct(i) ==
    \E w \in workers : w.id = i /\ (WorkerStep(w) \/ WorkerTrap(w))

\* worker thread i has a step to take: ENABLED <<WorkerAct(i)>>_vars
WorkerLive(i) == pc = "join" /\ \E w \in workers : w.id = i /\ ~Finished(w)

\* the steps of thread i of an OpenMP team
TeamAct(i) ==
    \E t \in team : t.id = i /\ (OmpThreadRun(t) \/ OmpThreadTrap(t))

\* thread i of the team has a step to take: ENABLED <<TeamAct(i)>>_vars
TeamLive(i) == pc = "barrier" /\ \E t \in team : t.id = i /\ ~TeamDone(t)

\* WF_vars(WorkerAct(i)) and WF_vars(TeamAct(i)) of every thread, written out
ThreadFairness ==
    \A i \in 0..(DefaultThreads - 1) :
        /\ []<>(~WorkerLive(i)) \/ []<><<WorkerAct(i)>>_vars
        /\ []<>(~TeamLive(i)) \/ []<><<TeamAct(i)>>_vars

SpecBatchFair ==
    BatchInit /\ [][BatchNext]_vars /\ WF_vars(BatchMainStep) /\ ThreadFairness

\* the runParallel call of stage k of an image has returned: the next call
\* is about to be made, or the pipeline of the image is through
CallReturned(k) == pc = "save" \/ (pc = "spawn" /\ stage = k + 1)

\* C21: with a worker count of at least 1, every runParallel call that is
\* made eventually returns, and the run eventually prints the final
\* statistics and returns 0, whatever the entries of the directory are
C21_CallsReturnAndRunEnds ==
    (strategy = "threads" /\ numThreads >= 1) =>
        /\ \A k \in 1..Len(ThreadStages) :
              (pc = "spawn" /\ stage = k) ~> CallReturned(k)
        /\ <>(pc = "exit" /\ exitCode = 0)

(***************************************************************************)
(* What the final buffer depends on.                                       *)
(***************************************************************************)
\* buffer A after stages k.. of the pipeline of the decoded image, run on
\* buffers that hold a and b when stage k starts
RECURSIVE PipelineFrom(_, _, _)
PipelineFrom(a, b, k) ==
    IF k > Len(Stages) THEN a
    ELSE LET st == Stages[k]
             in == CASE st.inBuf = "img" -> img
                     [] st.inBuf = "A" -> a
                     [] st.inBuf = "B" -> b
             e == StageEffectFrom(st, in)
         IN  IF st.outBuf = "A" THEN PipelineFrom(Store(a, e), b, k + 1)
             ELSE PipelineFrom(a, Store(b, e), k + 1)

\* C22: the final buffer of an image is the same whatever buffers A and B
\* held when its pipeline started: when the fifth stage has returned, every
\* sample of the image in buffer A is what a run of the same image on
\* buffers malloc filled otherwise ends with.
C22_FinalBufferOfImageOnly ==
    (pc = "save" /\ numThreads >= 1) =>
        \A fill \in GarbageFills : \A k \in ImageSamples :
            bufferA[k] = PipelineFrom(FreshBuffer(fill), FreshBuffer(fill), 1)[k]

(***************************************************************************)
(* The benchmark harness.  A text is a sequence of characters; the path of *)
(* a binary is one unit of it.                                             *)
(***************************************************************************)
\* vector<int> threadCounts
threadCounts == <<1, 2, 4, 8>>

\* the outputs of the two g++ commands
OmpBinary == "../src_openmp/main_omp"
ThrBinary == "../src_threads/main_thr"

\* the programs the two test commands name
ThrCommand == "../src_threads/main_thr"
OmpCommand == "../src_omp/main_omp"

Paths == {OmpBinary, ThrBinary, ThrCommand, OmpCommand}

\* what a path holds: no file, or the binary of a program, built by this run
\* of the harness or left there by something earlier
NoFile == [program |-> "none", built |-> FALSE]
Binary(program, built) == [program |-> program, built |-> built]

\* the texts diff.count() may print
TimeTexts == {<<"0", ".", "5">>, <<"1", ".", "5">>}

\* std::to_string of an int >= 0
RECURSIVE to_string(_)
to_string(n) ==
    IF n < 10 THEN <<Digits[n + 1]>>
    ELSE to_string(n \div 10) \o <<Digits[(n % 10) + 1]>>

\* ---- what the two programs print ----
ThreadsStartLabel ==
    <<" ", " ", " ", "S", "T", "A", "R", "T", "I", "N", "G", " ", "P",
      "I", "P", "E", "L", "I", "N", "E", " ", "P", "R", "O", "C", "E",
      "S", "S", "O", "R", " ", "(">>
OmpStartLabel ==
    <<" ", " ", " ", "S", "T", "A", "R", "T", "I", "N", "G", " ", "B",
      "A", "T", "C", "H", " ", "P", "R", "O", "C", "E", "S", "S", "O",
      "R", " ", "(">>
StartEnd ==
    <<" ", "T", "h", "r", "e", "a", "d", "s", ")">>
FolderErrorLine ==
    <<"E", "r", "r", "o", "r", ":", " ", "I", "n", "p", "u", "t", " ",
      "f", "o", "l", "d", "e", "r", " ", "'", ".", ".", "/", "d", "a",
      "t", "a", "/", "i", "m", "a", "g", "e", "s", "'", " ", "n", "o",
      "t", " ", "f", "o", "u", "n", "d", ".">>
RuleLine ==
    <<"=", "=", "=", "=", "=", "=", "=", "=", "=", "=", "=", "=", "=",
      "=", "=", "=", "=", "=", "=", "=", "=", "=", "=", "=", "=", "=",
      "=", "=", "=", "=", "=", "=", "=", "=", "=", "=", "=", "=", "=",
      "=", "=", "=", "=">>
CompletedLine ==
    <<" ", " ", " ", "C", "O", "M", "P", "L", "E", "T", "E", "D", "!">>
CountLabel ==
    <<" ", " ", " ", "I", "m", "a", "g", "e", "s", " ", "P", "r", "o",
      "c", "e", "s", "s", "e", "d", ":", " ">>
ThreadsLabel ==
    <<" ", " ", " ", "T", "h", "r", "e", "a", "d", "s", " ", "U", "s",
      "e", "d", ":", " ", " ", " ", " ", " ">>
TimeLabel ==
    <<" ", " ", " ", "T", "O", "T", "A", "L", " ", "T", "I", "M", "E",
      ":", " ", " ", " ", " ", " ", " ", " ">>
SecondsEnd ==
    <<" ", "s", "e", "c", "o", "n", "d", "s">>

OmpBannerLine ==
    <<" ", " ", " ", "[", "O", "p", "e", "n", "M", "P", " ", "I", "m",
      "p", "l", "e", "m", "e", "n", "t", "a", "t", "i", "o", "n", "]">>

\* the line of an image that is decoded and processed; its file name is one
\* unit of the text
ImageLine ==
    <<"P", "r", "o", "c", "e", "s", "s", "i", "n", "g", ":", " ",
      "image.jpg",
      " ", ".", ".", ".", " ", "D", "o", "n", "e", ".">>

\* the lines on stdout of a run of a program with arguments args that takes
\* the time `time`, over a directory of `remaining` images
ProgramOutput(program, args, time) ==
    LET n == ParseThreads(args)
        start == (IF program = "threads" THEN ThreadsStartLabel
                  ELSE OmpStartLabel) \o to_string(n) \o StartEnd
        banner == IF program = "threads" THEN <<>> ELSE <<OmpBannerLine>>
    IN  <<RuleLine, start>> \o banner \o <<RuleLine>> \o
        IF ~inputExists THEN <<FolderErrorLine>>
        ELSE [i \in 1..remaining |-> ImageLine] \o
             <<<<>>, RuleLine, CompletedLine,
               CountLabel \o to_string(remaining),
               ThreadsLabel \o to_string(n),
               TimeLabel \o time \o SecondsEnd,
               RuleLine>>

\* what the shell prints when the program of a command does not exist
ShellErrorLine(path) ==
    <<"s", "h", ":", " ", "1", ":", " ", path>> \o
    <<":", " ", "n", "o", "t", " ", "f", "o", "u", "n", "d">>

\* the words of a command, split at its blanks
RECURSIVE Words(_, _)
Words(cmd, word) ==
    IF cmd = <<>> THEN (IF word = <<>> THEN <<>> ELSE <<word>>)
    ELSE IF Head(cmd) = " "
         THEN (IF word = <<>> THEN <<>> ELSE <<word>>) \o Words(Tail(cmd), <<>>)
         ELSE Words(Tail(cmd), Append(word, Head(cmd)))

\* system(cmd + " > temp_output.txt 2>&1"): the lines the file then holds
System(cmd, time) ==
    LET words == Words(cmd, <<>>)
        path == words[1][1]
    IN  IF files[path] = NoFile THEN <<ShellErrorLine(path)>>
        ELSE ProgramOutput(files[path].program, Tail(words), time)

\* ---- runAndGetStats ----
Whitespace == {" ", "\t", "\r", "\n"}

RECURSIVE TrimLeft(_)
TrimLeft(s) ==
    IF s # <<>> /\ Head(s) \in Whitespace THEN TrimLeft(Tail(s)) ELSE s

RECURSIVE TrimRight(_)
TrimRight(s) ==
    IF s # <<>> /\ s[Len(s)] \in Whitespace
    THEN TrimRight(SubSeq(s, 1, Len(s) - 1))
    ELSE s

cleanString(s) == TrimRight(TrimLeft(s))

\* line.find(pat) != string::npos
Contains(line, pat) ==
    \E i \in 1..(Len(line) - Len(pat) + 1) :
        SubSeq(line, i, i + Len(pat) - 1) = pat

\* line.substr(line.find(":") + 1), for a line that holds a colon
AfterFirstColon(line) ==
    LET at == CHOOSE i \in 1..Len(line) :
                  line[i] = ":" /\ \A j \in 1..(i - 1) : line[j] # ":"
    IN  SubSeq(line, at + 1, Len(line))

TimeMarker ==
    <<"T", "O", "T", "A", "L", " ", "T", "I", "M", "E", ":">>
CountMarker ==
    <<"I", "m", "a", "g", "e", "s", " ", "P", "r", "o", "c", "e", "s",
      "s", "e", "d", ":">>

\* RunStats as constructed
DefaultStats == [time |-> <<"N", "/", "A">>, count |-> <<"0">>]

\* the getline loop
RECURSIVE ScrapeLines(_, _)
ScrapeLines(lines, stats) ==
    IF lines = <<>> THEN stats
    ELSE LET line == Head(lines)
             s1 == IF Contains(line, TimeMarker)
                   THEN [stats EXCEPT !.time = cleanString(AfterFirstColon(line))]
                   ELSE stats
             s2 == IF Contains(line, CountMarker)
                   THEN [s1 EXCEPT !.count = cleanString(AfterFirstColon(line))]
                   ELSE s1
         IN  ScrapeLines(Tail(lines), s2)

\* the record of a test command: what it ran and what was scraped from it
RunRecord(cmd, stats) ==
    LET words == Words(cmd, <<>>)
        path == words[1][1]
    IN  [command |-> path, program |-> files[path].program,
         built |-> files[path].built, threads |-> ParseThreads(Tail(words)),
         time |-> stats.time]

\* ---- main ----
\* Summary{a, b, c}: the members in the order of their declaration
Summary(a, b, c) == [threads |-> a, ompTime |-> b, thrTime |-> c]

\* left << setw(n) << text
Pad(text, n) ==
    text \o [i \in 1..(IF Len(text) < n THEN n - Len(text) ELSE 0) |-> " "]

\* a row of the table, under the header of line 103: the cells of the
\* columns Threads, Std::Threads (s) and OpenMP (S)
TableRow(s) ==
    [threads |-> Pad(to_string(s.threads), 8),
     stdThreads |-> Pad(s.thrTime, 15),
     openmp |-> Pad(s.ompTime, 15)]

\* the harness is started where a binary may lie at the path of the second
\* test command; ../data/images may be missing
BenchInit ==
    /\ files \in {[p \in Paths |-> IF p = OmpCommand THEN f ELSE NoFile] :
                    f \in {NoFile, Binary("openmp", FALSE)}}
    /\ tempOutput = <<>>
    /\ tIdx = 0
    /\ thr = DefaultStats /\ omp = DefaultStats
    /\ summaryList = <<>>
    /\ table = <<>>
    /\ runs = <<>>
    /\ inputExists \in BOOLEAN
    /\ outputOk = TRUE /\ inputIsDir = TRUE
    /\ remaining = MaxEntries
    /\ pc = "compile"
    /\ strategy = "threads" /\ argv = <<>> /\ numThreads = DefaultThreads
    /\ allocOk = [A |-> TRUE, B |-> TRUE] /\ teamSize = 0
    /\ exitCode = -1 /\ fileCount = 0
    /\ width = 0 /\ height = 0 /\ channels = 0
    /\ img = EmptyBuffer /\ bufferA = EmptyBuffer /\ bufferB = EmptyBuffer
    /\ stage = 0 /\ workers = {} /\ team = {} /\ plan = <<>>
    /\ stageLog = <<>> /\ planLog = {} /\ rlog = {} /\ wlog = {}
    /\ wcnt = EmptyBuffer /\ outBefore = EmptyBuffer
    /\ decodes = 0 /\ loadFailures = 0 /\ encoded = <<>>
    /\ entryLog = <<>> /\ oob = {}
    /\ pHeight = 1 /\ pThreads = 1 /\ pI = 0 /\ pPlan = <<>>
    /\ FilterIdle

\* what no step of the harness changes
BenchFrame ==
    UNCHANGED <<strategy, argv, numThreads, inputExists, allocOk, teamSize,
                remaining, fileCount, width, height, channels, img, bufferA,
                bufferB, stage, workers, team, plan, stageLog, planLog, rlog,
                wlog, wcnt, outBefore, decodes, loadFailures, encoded,
                entryLog, pvars, fvars, oob, evars>>

\* the two g++ commands; the result of system() is not looked at
Compile ==
    /\ pc = "compile"
    /\ \E okOmp, okThr \in BOOLEAN :
          files' = [p \in Paths |->
                      IF p = OmpBinary /\ okOmp THEN Binary("openmp", TRUE)
                      ELSE IF p = ThrBinary /\ okThr THEN Binary("threads", TRUE)
                      ELSE files[p]]
    /\ tIdx' = 1
    /\ pc' = "test1"
    /\ UNCHANGED <<tempOutput, thr, omp, summaryList, table, runs, exitCode>>
    /\ BenchFrame

\* RunStats thr = runAndGetStats("../src_threads/main_thr " + to_string(t))
TestThreads ==
    /\ pc = "test1"
    /\ \E time \in TimeTexts :
          LET cmd == <<ThrCommand, " ">> \o to_string(threadCounts[tIdx])
              lines == System(cmd, time)
              stats == ScrapeLines(lines, DefaultStats)
          IN  /\ tempOutput' = lines
              /\ thr' = stats
              /\ runs' = Append(runs, RunRecord(cmd, stats))
    /\ pc' = "test2"
    /\ UNCHANGED <<files, tIdx, omp, summaryList, table, exitCode>>
    /\ BenchFrame

\* RunStats omp = runAndGetStats("../src_omp/main_omp " + to_string(t))
TestOpenMP ==
    /\ pc = "test2"
    /\ \E time \in TimeTexts :
          LET cmd == <<OmpCommand, " ">> \o to_string(threadCounts[tIdx])
              lines == System(cmd, time)
              stats == ScrapeLines(lines, DefaultStats)
          IN  /\ tempOutput' = lines
              /\ omp' = stats
              /\ runs' = Append(runs, RunRecord(cmd, stats))
    /\ pc' = "push"
    /\ UNCHANGED <<files, tIdx, thr, summaryList, table, exitCode>>
    /\ BenchFrame

\* summaryList.push_back({t, thr.time, omp.time}) and the loop's next round
PushSummary ==
    /\ pc = "push"
    /\ summaryList' = Append(summaryList,
                             Summary(threadCounts[tIdx], thr.time, omp.time))
    /\ tIdx' = tIdx + 1
    /\ pc' = IF tIdx < Len(threadCounts) THEN "test1" ELSE "table"
    /\ UNCHANGED <<files, tempOutput, thr, omp, table, runs, exitCode>>
    /\ BenchFrame

\* the summary table: the header, then a row per entry of summaryList
PrintTable ==
    /\ pc = "table"
    /\ table' = [i \in 1..Len(summaryList) |-> TableRow(summaryList[i])]
    /\ pc' = "cleanup"
    /\ UNCHANGED <<files, tempOutput, tIdx, thr, omp, summaryList, runs,
                   exitCode>>
    /\ BenchFrame

\* system("rm temp_output.txt"); return 0
Cleanup ==
    /\ pc = "cleanup"
    /\ tempOutput' = <<>>
    /\ pc' = "exit"
    /\ exitCode' = 0
    /\ UNCHANGED <<files, tIdx, thr, omp, summaryList, table, runs>>
    /\ BenchFrame

BenchNext ==
    \/ Compile
    \/ TestThreads
    \/ TestOpenMP
    \/ PushSummary
    \/ PrintTable
    \/ Cleanup

SpecBench == BenchInit /\ [][BenchNext]_vars

\* the test commands that ran the binary of `program` this run of the harness
\* built, with the thread count t
RunsOfBuilt(program, t) ==
    {j \in 1..Len(runs) : /\ runs[j].program = program
                          /\ runs[j].built
                          /\ runs[j].threads = t}

\* C23: when both binaries were built, the table has a row for each of the
\* thread counts 1, 2, 4, 8, in this order, whose Std::Threads cell is the
\* TOTAL TIME scraped from a run of the built std::thread binary with that
\* count and whose OpenMP cell is the TOTAL TIME scraped from a run of the
\* built OpenMP binary with that count.
C23_TableShowsBothBuiltBinaries ==
    (pc = "exit" /\ tIdx > 0 /\ files[OmpBinary].built /\ files[ThrBinary].built) =>
        /\ Len(table) = Len(threadCounts)
        /\ \A i \in 1..Len(table) :
              /\ table[i].threads = Pad(to_string(threadCounts[i]), 8)
              /\ \E j \in RunsOfBuilt("threads", threadCounts[i]) :
                    table[i].stdThreads = Pad(runs[j].time, 15)
              /\ \E j \in RunsOfBuilt("openmp", threadCounts[i]) :
                    table[i].openmp = Pad(runs[j].time, 15)
====
